---------------------------- MODULE Spec2Model ----------------------------
(***************************************************************************)
(* The section-snapping vertical scroller of assets/js/vertical-nav.js as  *)
(* a state machine.  One action per event handler or browser callback:     *)
(* indicator click, wheel listener, touchstart, the 800 ms completion      *)
(* timer of the native path, the requestAnimationFrame step of the manual  *)
(* path, and the passing of time.                                          *)
(*                                                                         *)
(* JavaScript runs each handler to completion, so a handler is one atomic  *)
(* action.  Handlers are written as functions from a record of the mutable *)
(* program state to the next record, so that the calls a handler makes     *)
(* compose in the order the code makes them.                               *)
(*                                                                         *)
(* The two listeners of a-img/script.js, the scroll-driven reveal of the   *)
(* SVG path and the pointer-follow highlight, are modelled beside it, each *)
(* with a specification of its own; a specification of one script keeps    *)
(* the variables of the others at rest.                                    *)
(***************************************************************************)
EXTENDS Integers, Sequences, FiniteSets

VARIABLES
    hasNativeSmoothScroll, \* feature probe, fixed at load
    scroller,              \* TRUE iff #vertical-slider exists
    indicators,            \* positions of the .indicator-button elements
    slideCount,            \* getCount(scroller, false), fixed at load
    scrollHeight,          \* scroller.scrollHeight
    ariaLabel,             \* per indicator: n of "Scroll to item #n", 0 = no attribute
    currentSlideIndex,
    isScrolling,           \* the animation lock
    ariaPressed,           \* per indicator: "true", "false", or "null" (no attribute)
    scrollTop,             \* scroller.scrollTop
    scrollToTarget,        \* <<top>> while the browser's own smooth scroll is under way, else <<>>
    timers,                \* pending setTimeout(onComplete, SCROLL_DURATION): time since set
    anims,                 \* smoothScrollPolyfill closures still referenced
    wheelEvent,            \* wheel event being dispatched, or NoEvent
    ev,                    \* what the last step was and what it did
    \* a-img/script.js, SVG reveal
    maskPath,              \* TRUE iff svg.squiggle and its #mask-path exist
    pathLength,            \* maskPath.getTotalLength()
    totalDistance,         \* scrollHeight - clientHeight of the scrolled container
    distance,              \* its scroll position
    rafId,                 \* <<handle>> or <<>> for null
    frames,                \* handles of the requested updatePath frame callbacks not yet run
    initialTimer,          \* TRUE while the 300 ms timer is pending
    lastOffset,            \* as a multiple of 1/Scale
    strokeDashoffset,      \* style.strokeDashoffset, as <<multiple of 1/Scale>>, <<>> if never set
    nextFrame,             \* the handle requestAnimationFrame returns next
    \* a-img/script.js, pointer follow
    elements,              \* positions of the .raul.duplicate elements
    isHovering,            \* per element
    fadeTimeout,           \* per element: <<handle>>, or <<>> for undefined
    timeouts,              \* pending fade-out timers, as [id, el]
    opacity,               \* per element: el.style.opacity, "" if never set
    quick,                 \* per element: what xTo and yTo were last called with
    mouse,                 \* <<the last mousemove event>>, <<>> before the first
    nextTimeout            \* the handle setTimeout returns next

config == <<hasNativeSmoothScroll, scroller, indicators, slideCount, scrollHeight, ariaLabel>>
prog == <<currentSlideIndex, isScrolling, ariaPressed, scrollTop, scrollToTarget, timers, anims>>
slider == <<config, prog, wheelEvent, ev>>
squiggle == <<maskPath, pathLength, totalDistance, distance, rafId, frames, initialTimer,
              lastOffset, strokeDashoffset, nextFrame>>
follow == <<elements, isHovering, fadeTimeout, timeouts, opacity, quick, mouse, nextTimeout>>
script == <<squiggle, follow>>
vars == <<slider, script>>

-----------------------------------------------------------------------------
(* Bounds of the model *)

MaxSlides == 3
MaxIndicators == 3
MaxScrollHeight == 10
MaxNestedScroll == 1

WideSlides == 10

WideScrollHeight == 90

PathLength == 3
MaxDistance == 4
MaxFrames == 3

MaxElements == 2
MaxTimeouts == 3

(* Program constants *)
SCROLL_DURATION == 800

HoverPadding == 50

NoEvent == [deltaY |-> 0, chain |-> <<>>, none |-> TRUE]

(* Date.now() advances between callbacks by half the duration, so that an  *)
(* elapsed time of exactly SCROLL_DURATION occurs before one past it.      *)
(* Every elapsed time past the duration is treated alike by the code, so   *)
(* it is kept as SCROLL_DURATION + 1.                                      *)
TickSteps == {SCROLL_DURATION \div 2}

Advance(e, d) == IF e + d > SCROLL_DURATION THEN SCROLL_DURATION + 1 ELSE e + d

-----------------------------------------------------------------------------
(* Nested elements a wheel event can start from.  A chain lists the        *)
(* event target first and then its ancestors below the scroller.           *)

OverflowValues == {"visible", "auto", "scroll"}

Elements ==
    [overflowY : OverflowValues,
     scrollTop : 0 .. MaxNestedScroll,
     clientHeight : {1},
     scrollHeight : {MaxNestedScroll + 2}]

Chains ==
    {<<>>} \cup {<<a>> : a \in Elements} \cup {<<a, b>> : a \in Elements, b \in Elements}

DeltaYs == {-1, 0, 1}

-----------------------------------------------------------------------------
(* The mutable program state as one record *)

Cur ==
    [isScrolling |-> isScrolling,
     currentSlideIndex |-> currentSlideIndex,
     ariaPressed |-> ariaPressed,
     scrollTop |-> scrollTop,
     scrollToTarget |-> scrollToTarget,
     timers |-> timers,
     anims |-> anims]

Commit(s) ==
    /\ isScrolling' = s.isScrolling
    /\ currentSlideIndex' = s.currentSlideIndex
    /\ ariaPressed' = s.ariaPressed
    /\ scrollTop' = s.scrollTop
    /\ scrollToTarget' = s.scrollToTarget
    /\ timers' = s.timers
    /\ anims' = s.anims

Event(kind, nav, accepted, prevented, delegated, done) ==
    [kind |-> kind, nav |-> nav, accepted |-> accepted,
     prevented |-> prevented, delegated |-> delegated, done |-> done, deltaY |-> 0]

-----------------------------------------------------------------------------
(* Pure helpers *)

(* c * ((t/d - 1)^5 + 1) + b.  The code computes in IEEE doubles; here the *)
(* powers of t/d - 1 are kept as fractions of denominator d, and the value *)
(* stored in scrollTop is rounded down to an integer.                      *)
easingOutQuint(x, t, b, c, d) ==
    LET p1 == t - d
        p2 == (p1 * p1) \div d
        p3 == (p2 * p1) \div d
        p4 == (p3 * p1) \div d
        p5 == (p4 * p1) \div d
    IN  (c * (p5 + d)) \div d + b

(* IEEE double arithmetic on small integers, kept exact by carrying the    *)
(* rounding error of a quotient instead of its 53-bit significand.         *)
RECURSIVE Pow2(_)
Pow2(k) == IF k = 0 THEN 1 ELSE 2 * Pow2(k - 1)

RECURSIVE Pow2Mod(_, _)
Pow2Mod(k, m) ==
    IF k <= 16 THEN Pow2(k) % m ELSE ((Pow2(16) % m) * Pow2Mod(k - 16, m)) % m

RECURSIVE Log2Floor(_)
Log2Floor(q) == IF q < 2 THEN 0 ELSE 1 + Log2Floor(q \div 2)

(* For 0 < i < n: the g with 2^-g <= i/n < 2^(1-g), counted up from g *)
RECURSIVE binade(_, _, _)
binade(i, n, g) == IF i * Pow2(g) >= n THEN g ELSE binade(i, n, g + 1)

(* i / n in doubles, for 0 < i < n: the result is (i * 2^k + d) / (n * 2^k) *)
(* with k = 52 + g, where r is the remainder that truncation would drop    *)
(* and round-to-nearest, ties to even, either drops it or rounds up.       *)
divide(i, n) ==
    LET g == binade(i, n, 1)
        k == 52 + g
        r == (Pow2Mod(k, n) * i) % n
        odd == (Pow2Mod(k, 2 * n) * i) % (2 * n) >= n
    IN  [g |-> g,
         d |-> IF 2 * r < n \/ (2 * r = n /\ ~odd) THEN 0 - r ELSE n - r]

(* Math.floor(scroller.scrollHeight * (currentSlideIndex / slideCount)).   *)
(* The quotient is rounded before the product is taken.  The rounded       *)
(* product falls below the exact quotient q only when q is an integer, the *)
(* division rounded down, and the error h * |d| / (n * 2^k) exceeds half   *)
(* the gap between q and the double just below it; the floor is then q - 1. *)
targetScrollTop(index) ==
    LET q == (scrollHeight * index) \div slideCount
        f == (scrollHeight * index) % slideCount
    IN  IF index = 0 \/ scrollHeight = 0 \/ f # 0
        THEN q
        ELSE LET e == divide(index, slideCount)
                 E == Log2Floor(q)
                 w == IF q = Pow2(E) THEN 4 ELSE 2
             IN  IF e.d < 0 /\ w * scrollHeight * (0 - e.d) > slideCount * Pow2(e.g + E)
                 THEN q - 1
                 ELSE q

(* Variant: the active indicator is pressed, the others are left as they were *)
setAriaPressedNoReset(s, activeIndex) ==
    [s EXCEPT !.ariaPressed =
        [i \in indicators |-> IF i = activeIndex THEN "true" ELSE s.ariaPressed[i]]]

(* indicators.forEach((indicator, i) => setAttribute('aria-pressed', i === activeIndex)) *)
setAriaPressed(s, activeIndex) ==
    [s EXCEPT !.ariaPressed =
        [i \in indicators |-> IF i = activeIndex THEN "true" ELSE "false"]]

(* Variant: the callback fails to release the lock *)
onCompleteKeepsLock(s) == s

(* The completion callback handed to smoothScroll by navigateToSlide *)
onComplete(s) == [s EXCEPT !.isScrolling = FALSE]

-----------------------------------------------------------------------------
(* smoothScrollPolyfill *)

(* One closure of smoothScrollPolyfill: its captured locals, whether its   *)
(* cancel listeners are attached, and whether a frame callback is pending. *)
NewAnim(offset, target) ==
    [elapsed |-> 0, offset |-> offset, gap |-> target - offset, target |-> target,
     interrupt |-> FALSE, listening |-> TRUE, raf |-> FALSE]

RemoveAt(q, k) == SubSeq(q, 1, k - 1) \o SubSeq(q, k + 1, Len(q))

(* A closure with no pending frame and no attached listener is garbage. *)
Collect(s, k) ==
    IF s.anims[k].raf \/ s.anims[k].listening
    THEN s
    ELSE [s EXCEPT !.anims = RemoveAt(s.anims, k)]

(* cleanup: both cancel listeners are removed *)
cleanup(s, k) == [s EXCEPT !.anims[k].listening = FALSE]

(* cancel: interrupt = true; cleanup() *)
cancel(s, k) == cleanup([s EXCEPT !.anims[k].interrupt = TRUE], k)

(* Variant: step does not look at the interrupt flag *)
stepIgnoresInterrupt(s, k) ==
    LET a == s.anims[k]
        s0 == [s EXCEPT !.anims[k].raf = FALSE]
    IN  IF a.elapsed > SCROLL_DURATION
        THEN onComplete(cleanup([s0 EXCEPT !.scrollTop = a.target], k))
        ELSE [s0 EXCEPT !.scrollTop =
                            easingOutQuint(0, a.elapsed, a.offset, a.gap, SCROLL_DURATION),
                        !.anims[k].raf = TRUE]

(* step, run for closure k; the pending frame callback, if any, is consumed *)
step(s, k) ==
    LET a == s.anims[k]
        s0 == [s EXCEPT !.anims[k].raf = FALSE]
    IN  IF a.interrupt
        THEN s0
        ELSE IF a.elapsed > SCROLL_DURATION
        THEN onComplete(cleanup([s0 EXCEPT !.scrollTop = a.target], k))
        ELSE [s0 EXCEPT !.scrollTop =
                            easingOutQuint(0, a.elapsed, a.offset, a.gap, SCROLL_DURATION),
                        !.anims[k].raf = TRUE]

smoothScrollPolyfill(s, target) ==
    LET s1 == [s EXCEPT !.anims = Append(s.anims, NewAnim(s.scrollTop, target))]
    IN  step(s1, Len(s1.anims))

(* smoothScroll *)
smoothScroll(s, topOrLeft) ==
    IF hasNativeSmoothScroll
    THEN [s EXCEPT !.scrollToTarget = <<topOrLeft>>,
                   !.timers = Append(s.timers, 0)]
    ELSE smoothScrollPolyfill(s, topOrLeft)

-----------------------------------------------------------------------------
(* navigateToSlide *)

Rejects(s, index) == s.isScrolling \/ index < 0 \/ index >= slideCount

(* Variant: the lock is not tested *)
navigateToSlideNoLock(s, index) ==
    IF index < 0 \/ index >= slideCount
    THEN s
    ELSE LET s1 == [s EXCEPT !.isScrolling = TRUE, !.currentSlideIndex = index]
             s2 == setAriaPressed(s1, s1.currentSlideIndex)
         IN  smoothScroll(s2, targetScrollTop(s2.currentSlideIndex))

(* Variant: the upper bound is tested with > instead of >= (an empty      *)
(* scroller still accepts nothing)                                        *)
navigateToSlideOffByOne(s, index) ==
    IF s.isScrolling \/ index < 0 \/ index > slideCount \/ slideCount = 0
    THEN s
    ELSE LET s1 == [s EXCEPT !.isScrolling = TRUE, !.currentSlideIndex = index]
             s2 == setAriaPressed(s1, s1.currentSlideIndex)
         IN  smoothScroll(s2, targetScrollTop(s2.currentSlideIndex))

navigateToSlide(s, index) ==
    IF Rejects(s, index)
    THEN s
    ELSE LET s1 == [s EXCEPT !.isScrolling = TRUE, !.currentSlideIndex = index]
             s2 == setAriaPressed(s1, s1.currentSlideIndex)
         IN  smoothScroll(s2, targetScrollTop(s2.currentSlideIndex))

-----------------------------------------------------------------------------
(* The wheel listener of the scroller *)

(* Variant: the sign of the delta is read the wrong way round *)
scrollDirectionInverted(deltaY) == IF deltaY > 0 THEN -1 ELSE 1

scrollDirection(deltaY) == IF deltaY > 0 THEN 1 ELSE -1

(* Variant: overflow-y 'scroll' is forgotten *)
isScrollableAutoOnly(el) == el.overflowY = "auto"

isScrollable(el) == el.overflowY = "auto" \/ el.overflowY = "scroll"

canScrollDown(el) == el.scrollTop + el.clientHeight < el.scrollHeight - 1

canScrollUp(el) == el.scrollTop > 0

(* The while loop: TRUE iff it returns early, leaving the event to the     *)
(* browser.  chain[k] is currentElement; past the end is the scroller.     *)
RECURSIVE walk(_, _, _)
walk(chain, k, dir) ==
    IF k > Len(chain)
    THEN FALSE
    ELSE IF /\ isScrollable(chain[k])
            /\ \/ dir > 0 /\ canScrollDown(chain[k])
               \/ dir < 0 /\ canScrollUp(chain[k])
    THEN TRUE
    ELSE walk(chain, k + 1, dir)

(* Variant: the ancestors are examined before the lock is *)
wheelListenerWalkFirst(s, e) ==
    IF walk(e.chain, 1, scrollDirection(e.deltaY))
    THEN [s |-> s, prevented |-> FALSE, nav |-> <<>>, delegated |-> TRUE]
    ELSE IF s.isScrolling
    THEN [s |-> s, prevented |-> TRUE, nav |-> <<>>, delegated |-> FALSE]
    ELSE LET nextSlideIndex == s.currentSlideIndex + scrollDirection(e.deltaY)
         IN  [s |-> navigateToSlide(s, nextSlideIndex), prevented |-> TRUE,
              nav |-> <<nextSlideIndex>>, delegated |-> FALSE]

(* The listener's result: the next state, whether preventDefault was       *)
(* called, and the argument of its navigateToSlide call, if it made one.   *)
wheelListener(s, e) ==
    IF s.isScrolling
    THEN [s |-> s, prevented |-> TRUE, nav |-> <<>>, delegated |-> FALSE]
    ELSE IF walk(e.chain, 1, scrollDirection(e.deltaY))
    THEN [s |-> s, prevented |-> FALSE, nav |-> <<>>, delegated |-> TRUE]
    ELSE LET nextSlideIndex == s.currentSlideIndex + scrollDirection(e.deltaY)
         IN  [s |-> navigateToSlide(s, nextSlideIndex), prevented |-> TRUE,
              nav |-> <<nextSlideIndex>>, delegated |-> FALSE]

(* The cancel listeners attached when the event was dispatched run after   *)
(* the scroller's own listener, in the order they were added: closures 1..n *)
RECURSIVE cancelAll(_, _)
cancelAll(s, n) ==
    IF n = 0
    THEN s
    ELSE LET s1 == cancelAll(s, n - 1)
         IN  IF s1.anims[n].listening THEN cancel(s1, n) ELSE s1

-----------------------------------------------------------------------------
(* Initial state: the page as the DOMContentLoaded listener leaves it *)

(* A page without svg.squiggle: the listener of a-img/script.js returns at once *)
NoSquiggle ==
    /\ maskPath = FALSE
    /\ pathLength = 0
    /\ totalDistance = 0
    /\ distance = 0
    /\ rafId = <<>>
    /\ frames = {}
    /\ initialTimer = FALSE
    /\ lastOffset = 0
    /\ strokeDashoffset = <<>>
    /\ nextFrame = 1

(* A page without .raul.duplicate elements: no mousemove listener is added *)
NoFollow ==
    /\ elements = {}
    /\ isHovering = <<>>
    /\ fadeTimeout = <<>>
    /\ timeouts = {}
    /\ opacity = <<>>
    /\ quick = <<>>
    /\ mouse = <<>>
    /\ nextTimeout = 1

(* What the listener does once the elements have been looked up *)
Loaded ==
    /\ ariaLabel = [i \in indicators |-> IF scroller THEN i + 1 ELSE 0]
    /\ ariaPressed = LET none == [i \in indicators |-> "null"]
                     IN  IF scroller
                         THEN setAriaPressed([ariaPressed |-> none], 0).ariaPressed
                         ELSE none
    /\ currentSlideIndex = 0
    /\ isScrolling = FALSE
    /\ scrollTop = 0
    /\ scrollToTarget = <<>>
    /\ timers = <<>>
    /\ anims = <<>>
    /\ wheelEvent = NoEvent
    /\ ev = Event("load", <<>>, FALSE, FALSE, FALSE, FALSE)

Init ==
    /\ hasNativeSmoothScroll \in BOOLEAN
    /\ scroller \in BOOLEAN
    /\ \E n \in 0 .. MaxIndicators : indicators = 0 .. n - 1
    /\ slideCount \in (IF scroller THEN 0 .. MaxSlides ELSE {0})
    /\ scrollHeight \in (IF scroller THEN {MaxScrollHeight} ELSE {0})
    /\ Loaded
    /\ NoSquiggle
    /\ NoFollow

(* A page of WideSlides slides in a scroller WideScrollHeight high *)
WideInit ==
    /\ hasNativeSmoothScroll \in BOOLEAN
    /\ scroller = TRUE
    /\ indicators = 0 .. MaxIndicators - 1
    /\ slideCount = WideSlides
    /\ scrollHeight = WideScrollHeight
    /\ Loaded
    /\ NoSquiggle
    /\ NoFollow

-----------------------------------------------------------------------------
(* Actions *)

Idle == wheelEvent.none

(* Variant: the click listeners are registered before the scroller is checked *)
IndicatorClickUnguarded(i) ==
    /\ Idle
    /\ i \in indicators
    /\ Commit(navigateToSlide(Cur, i))
    /\ ev' = Event("click", <<i>>, ~Rejects(Cur, i), TRUE, FALSE, FALSE)
    /\ UNCHANGED <<config, script, wheelEvent>>

(* Click on indicator i: preventDefault, stopPropagation, navigateToSlide(i) *)
IndicatorClick(i) ==
    /\ Idle
    /\ i \in indicators
    /\ IF scroller
       THEN /\ Commit(navigateToSlide(Cur, i))
            /\ ev' = Event("click", <<i>>, ~Rejects(Cur, i), TRUE, FALSE, FALSE)
       ELSE /\ UNCHANGED prog
            /\ ev' = Event("click", <<>>, FALSE, FALSE, FALSE, FALSE)
    /\ UNCHANGED <<config, script, wheelEvent>>

(* A wheel event reaches the scroller from a target inside it *)
WheelDispatch(deltaY, chain) ==
    /\ Idle
    /\ wheelEvent' = [deltaY |-> deltaY, chain |-> chain, none |-> FALSE]
    /\ ev' = Event("dispatch", <<>>, FALSE, FALSE, FALSE, FALSE)
    /\ UNCHANGED <<config, script, prog>>

(* The listeners of the scroller run on the dispatched wheel event *)
WheelHandle ==
    /\ ~Idle
    /\ IF scroller
       THEN LET r == wheelListener(Cur, wheelEvent)
            IN  /\ Commit(cancelAll(r.s, Len(anims)))
                /\ ev' = [Event("wheel", r.nav,
                                r.nav # <<>> /\ ~Rejects(Cur, r.nav[1]),
                                r.prevented, r.delegated, FALSE)
                           EXCEPT !.deltaY = wheelEvent.deltaY]
       ELSE /\ UNCHANGED prog
            /\ ev' = Event("wheel", <<>>, FALSE, FALSE, FALSE, FALSE)
    /\ wheelEvent' = NoEvent
    /\ UNCHANGED <<config, script>>

(* A touchstart event reaches the scroller: only cancel listeners hear it *)
TouchStart ==
    /\ Idle
    /\ Commit(cancelAll(Cur, Len(anims)))
    /\ ev' = Event("touchstart", <<>>, FALSE, FALSE, FALSE, FALSE)
    /\ UNCHANGED <<config, script, wheelEvent>>

(* setTimeout(onComplete, SCROLL_DURATION) expires *)
TimerFire(k) ==
    /\ Idle
    /\ k \in DOMAIN timers
    /\ timers[k] >= SCROLL_DURATION
    /\ Commit(onComplete([Cur EXCEPT !.timers = RemoveAt(timers, k)]))
    /\ ev' = Event("timer", <<>>, FALSE, FALSE, FALSE, TRUE)
    /\ UNCHANGED <<config, script, wheelEvent>>

(* requestAnimationFrame(step) calls back *)
Frame(k) ==
    /\ Idle
    /\ k \in DOMAIN anims
    /\ anims[k].raf
    /\ Commit(Collect(step(Cur, k), k))
    /\ ev' = Event("frame", <<>>, FALSE, FALSE, FALSE,
                   ~anims[k].interrupt /\ anims[k].elapsed > SCROLL_DURATION)
    /\ UNCHANGED <<config, script, wheelEvent>>

(* Date.now() advances by d ms while a timer or a frame callback is pending *)
Tick(d) ==
    /\ Idle
    /\ timers # <<>> \/ anims # <<>>
    /\ timers' = [k \in DOMAIN timers |-> Advance(timers[k], d)]
    /\ anims' = [k \in DOMAIN anims |->
                    [anims[k] EXCEPT !.elapsed = Advance(anims[k].elapsed, d)]]
    /\ ev' = Event("tick", <<>>, FALSE, FALSE, FALSE, FALSE)
    /\ UNCHANGED <<config, script, wheelEvent, currentSlideIndex, isScrolling, ariaPressed,
                   scrollTop, scrollToTarget>>

(* The browser carries out node.scrollTo({top, behavior: 'smooth'}) *)
NativeScroll ==
    /\ Idle
    /\ scrollToTarget # <<>>
    /\ scrollTop' = scrollToTarget[1]
    /\ scrollToTarget' = <<>>
    /\ ev' = Event("scroll", <<>>, FALSE, FALSE, FALSE, FALSE)
    /\ UNCHANGED <<config, script, wheelEvent, currentSlideIndex, isScrolling, ariaPressed,
                   timers, anims>>

Next ==
    \/ \E i \in 0 .. MaxIndicators - 1 : IndicatorClick(i)
    \/ \E deltaY \in DeltaYs, chain \in Chains : WheelDispatch(deltaY, chain)
    \/ WheelHandle
    \/ TouchStart
    \/ \E k \in 1 .. Len(timers) : TimerFire(k)
    \/ \E k \in 1 .. Len(anims) : Frame(k)
    \/ \E d \in TickSteps : Tick(d)
    \/ NativeScroll

Spec == Init /\ [][Next]_vars

(* The event loop runs a due timer, a requested frame callback and the     *)
(* listeners of a dispatched event, and time passes, however often the     *)
(* user's events come in between; the user is never obliged to click,      *)
(* scroll or touch.                                                        *)
Fairness ==
    /\ WF_vars(WheelHandle)
    /\ SF_vars(\E k \in 1 .. Len(timers) : TimerFire(k))
    /\ SF_vars(\E k \in 1 .. Len(anims) : Frame(k))
    /\ SF_vars(\E d \in TickSteps : Tick(d))
    /\ SF_vars(NativeScroll)

FairSpec == Spec /\ Fairness

WideSpec == WideInit /\ [][Next]_vars

-----------------------------------------------------------------------------
(* a-img/script.js: the scroll-driven reveal of the SVG path *)

(* A page without #vertical-slider and without indicator buttons *)
NoSlider ==
    /\ hasNativeSmoothScroll = FALSE
    /\ scroller = FALSE
    /\ indicators = {}
    /\ slideCount = 0
    /\ scrollHeight = 0
    /\ Loaded

(* Offsets are fractions of the path length; they are kept as integer     *)
(* multiples of 1/Scale, which is exact for the quotient distance /       *)
(* totalDistance.                                                          *)
Scale == IF totalDistance > 0 THEN totalDistance ELSE 1

SqCur ==
    [distance |-> distance, rafId |-> rafId, frames |-> frames,
     initialTimer |-> initialTimer, lastOffset |-> lastOffset,
     strokeDashoffset |-> strokeDashoffset, nextFrame |-> nextFrame]

SqCommit(s) ==
    /\ distance' = s.distance
    /\ rafId' = s.rafId
    /\ frames' = s.frames
    /\ initialTimer' = s.initialTimer
    /\ lastOffset' = s.lastOffset
    /\ strokeDashoffset' = s.strokeDashoffset
    /\ nextFrame' = s.nextFrame

Abs(x) == IF x < 0 THEN 0 - x ELSE x

(* totalDistance > 0 ? Math.min(1, Math.max(0, distance / totalDistance)) : 0, *)
(* times Scale                                                             *)
percentage(s) ==
    IF totalDistance > 0
    THEN (IF s.distance > totalDistance THEN totalDistance
          ELSE IF s.distance < 0 THEN 0 ELSE s.distance)
    ELSE 0

(* updatePath *)
updatePath(s) ==
    LET offset == pathLength * (Scale - percentage(s))
        s1 == IF 2 * Abs(offset - s.lastOffset) > Scale
              THEN [s EXCEPT !.strokeDashoffset = <<offset>>, !.lastOffset = offset]
              ELSE s
    IN  [s1 EXCEPT !.rafId = <<>>]

(* scroll: if (rafId === null) rafId = requestAnimationFrame(updatePath) *)
scroll(s) ==
    IF s.rafId = <<>>
    THEN [s EXCEPT !.rafId = <<s.nextFrame>>,
                   !.frames = @ \cup {s.nextFrame},
                   !.nextFrame = @ + 1]
    ELSE s

(* The state the DOMContentLoaded listener leaves behind *)
SquiggleInit ==
    /\ NoSlider
    /\ NoFollow
    /\ maskPath \in BOOLEAN
    /\ pathLength = PathLength
    /\ totalDistance \in {0, MaxDistance}
    /\ distance = 0
    /\ rafId = <<>>
    /\ frames = {}
    /\ initialTimer = maskPath
    /\ lastOffset = pathLength * Scale
    /\ strokeDashoffset = (IF maskPath THEN <<pathLength * Scale>> ELSE <<>>)
    /\ nextFrame = 1

(* The container is scrolled to position d and its scroll event is        *)
(* dispatched; without the mask path no listener was registered.           *)
ScrollEvent(d) ==
    /\ d # distance
    /\ rafId = <<>> => nextFrame <= MaxFrames
    /\ LET s == [SqCur EXCEPT !.distance = d]
       IN  SqCommit(IF maskPath THEN scroll(s) ELSE s)
    /\ UNCHANGED <<slider, follow, maskPath, pathLength, totalDistance>>

(* The browser runs the frame callback with handle h *)
AnimationFrame(h) ==
    /\ h \in frames
    /\ SqCommit(updatePath([SqCur EXCEPT !.frames = @ \ {h}]))
    /\ UNCHANGED <<slider, follow, maskPath, pathLength, totalDistance>>

(* setTimeout(() => { updatePath(); }, 300) expires *)
InitialUpdate ==
    /\ initialTimer
    /\ SqCommit(updatePath([SqCur EXCEPT !.initialTimer = FALSE]))
    /\ UNCHANGED <<slider, follow, maskPath, pathLength, totalDistance>>

SquiggleNext ==
    \/ \E d \in 0 .. MaxDistance : ScrollEvent(d)
    \/ \E h \in 1 .. MaxFrames : AnimationFrame(h)
    \/ InitialUpdate

SquiggleSpec == SquiggleInit /\ [][SquiggleNext]_vars

-----------------------------------------------------------------------------
(* a-img/script.js: the pointer-follow highlight *)

(* Bounding boxes an element is found in, and pointer positions, on and    *)
(* next to the edges of the padded zones.                                  *)
Rects ==
    {[left |-> l, right |-> l + 100, top |-> 100, bottom |-> 200] : l \in {100, 101}}

ClientXs == {49, 50, 251}

ClientYs == {50, 251}

FoCur ==
    [isHovering |-> isHovering, fadeTimeout |-> fadeTimeout, timeouts |-> timeouts,
     opacity |-> opacity, quick |-> quick, nextTimeout |-> nextTimeout]

FoCommit(s) ==
    /\ isHovering' = s.isHovering
    /\ fadeTimeout' = s.fadeTimeout
    /\ timeouts' = s.timeouts
    /\ opacity' = s.opacity
    /\ quick' = s.quick
    /\ nextTimeout' = s.nextTimeout

isOver(e, r) ==
    /\ e.clientX >= r.left - HoverPadding
    /\ e.clientX <= r.right + HoverPadding
    /\ e.clientY >= r.top - HoverPadding
    /\ e.clientY <= r.bottom + HoverPadding

(* clearTimeout(handle): undefined and expired handles are ignored *)
clearTimeout(s, handle) ==
    IF handle = <<>>
    THEN s
    ELSE [s EXCEPT !.timeouts = {x \in @ : x.id # handle[1]}]

(* Variant: the pending fade-out is not cancelled on entering the zone *)
mousemoveNoClear(s, el, e) ==
    LET r == e.rect[el]
        relX == <<(e.clientX - r.left) * 100, r.right - r.left>>
        relY == <<(e.clientY - r.top) * 100, r.bottom - r.top>>
        s1 == IF ~s.isHovering[el]
              THEN [s EXCEPT !.isHovering[el] = TRUE, !.opacity[el] = "1"]
              ELSE s
    IN  IF isOver(e, r)
        THEN [s1 EXCEPT !.quick[el] = <<relX, relY>>]
        ELSE IF s.isHovering[el]
        THEN [s EXCEPT !.isHovering[el] = FALSE,
                       !.fadeTimeout[el] = <<s.nextTimeout>>,
                       !.timeouts = @ \cup {[id |-> s.nextTimeout, el |-> el]},
                       !.nextTimeout = @ + 1]
        ELSE s

(* The mousemove listener of element el; the percentages handed to xTo and *)
(* yTo are kept as fractions <<numerator, denominator>>.                   *)
mousemove(s, el, e) ==
    LET r == e.rect[el]
        relX == <<(e.clientX - r.left) * 100, r.right - r.left>>
        relY == <<(e.clientY - r.top) * 100, r.bottom - r.top>>
        s1 == IF ~s.isHovering[el]
              THEN [clearTimeout([s EXCEPT !.isHovering[el] = TRUE], s.fadeTimeout[el])
                       EXCEPT !.opacity[el] = "1"]
              ELSE s
    IN  IF isOver(e, r)
        THEN [s1 EXCEPT !.quick[el] = <<relX, relY>>]
        ELSE IF s.isHovering[el]
        THEN [s EXCEPT !.isHovering[el] = FALSE,
                       !.fadeTimeout[el] = <<s.nextTimeout>>,
                       !.timeouts = @ \cup {[id |-> s.nextTimeout, el |-> el]},
                       !.nextTimeout = @ + 1]
        ELSE s

(* The listeners of elements 1 .. n run in the order they were added *)
RECURSIVE dispatch(_, _, _)
dispatch(s, n, e) ==
    IF n = 0 THEN s ELSE mousemove(dispatch(s, n - 1, e), n, e)

FollowInit ==
    /\ NoSlider
    /\ NoSquiggle
    /\ \E n \in 0 .. MaxElements : elements = 1 .. n
    /\ isHovering = [el \in elements |-> FALSE]
    /\ fadeTimeout = [el \in elements |-> <<>>]
    /\ timeouts = {}
    /\ opacity = [el \in elements |-> ""]
    /\ quick = [el \in elements |-> <<>>]
    /\ mouse = <<>>
    /\ nextTimeout = 1

(* The pointer moves to (x, y); each listener reads its element's box *)
MouseMove(x, y, rect) ==
    LET e == [clientX |-> x, clientY |-> y, rect |-> rect]
        s == dispatch(FoCur, Cardinality(elements), e)
    IN  /\ s.nextTimeout <= MaxTimeouts + 1
        /\ FoCommit(s)
        /\ mouse' = <<e>>
        /\ UNCHANGED <<slider, squiggle, elements>>

(* The fade-out timer x expires: el.style.opacity = 0 *)
FadeOut(x) ==
    /\ x \in timeouts
    /\ timeouts' = timeouts \ {x}
    /\ opacity' = [opacity EXCEPT ![x.el] = "0"]
    /\ UNCHANGED <<slider, squiggle, elements, isHovering, fadeTimeout, quick, mouse,
                   nextTimeout>>

FollowNext ==
    \/ \E x \in ClientXs, y \in ClientYs, rect \in [elements -> Rects] : MouseMove(x, y, rect)
    \/ \E x \in timeouts : FadeOut(x)

FollowSpec == FollowInit /\ [][FollowNext]_vars

-----------------------------------------------------------------------------
(* Vocabulary of the properties *)

ValidIndices == 0 .. slideCount - 1

(* Closures whose frame chain is alive: a callback is pending and the      *)
(* closure has not been interrupted, so it will write scrollTop again.     *)
LiveChains == {k \in DOMAIN anims : anims[k].raf /\ ~anims[k].interrupt}

ActiveAnimations == Len(timers) + Cardinality(LiveChains)

Pressed(f) == {j \in DOMAIN f : f[j] = "true"}

(* The step is the scroller's handling of the wheel event in flight *)
WheelStep == scroller /\ ~wheelEvent.none

(* The step is a click on an indicator *)
ClickStep == scroller /\ ev'.kind = "click"

(* The step called navigateToSlide(i) *)
NavStep(i) == ev'.kind \in {"click", "wheel"} /\ ev'.nav = <<i>>

NoAnimationStarted ==
    /\ Len(timers') <= Len(timers)
    /\ Len(anims') <= Len(anims)
    /\ scrollToTarget' = scrollToTarget

(* Scroll room of a nested element, as the specification defines it *)
RoomDown(el) == el.scrollTop + el.clientHeight < el.scrollHeight - 1

RoomUp(el) == el.scrollTop > 0

(* Some element from the target up to below the scroller is scrollable    *)
(* and has room in the direction of the event's vertical delta.            *)
HasRoomAncestor(e) ==
    \E k \in DOMAIN e.chain :
        /\ e.chain[k].overflowY \in {"auto", "scroll"}
        /\ \/ e.deltaY > 0 /\ RoomDown(e.chain[k])
           \/ e.deltaY < 0 /\ RoomUp(e.chain[k])

-----------------------------------------------------------------------------
(* C1: every accepted navigateToSlide call is eventually followed by the   *)
(* lock returning to false, also when a wheel or touchstart event          *)
(* interrupts the manual animation.  Stated as the claim states it; the    *)
(* code violates it: cancel never calls the completion callback.           *)
C1_LockEventuallyReleased == ev.accepted ~> ~isScrolling

(* What the code does instead: the lock is released unless every manual    *)
(* animation has been interrupted, and then it is held for good.           *)
Stuck == isScrolling /\ timers = <<>> /\ \A k \in DOMAIN anims : anims[k].interrupt

ReleasedUnlessInterrupted == ev.accepted ~> (~isScrolling \/ Stuck)

StuckForever == [][Stuck => Stuck']_vars

(* C2: a click or wheel event handled while the lock is held changes       *)
(* neither currentSlideIndex nor the lock nor any pressed state and starts *)
(* no animation; a rejected click leaves the whole program state as it     *)
(* was, so nothing is queued that could act later.                         *)
C2_LockedRequestDropped ==
    [][ (isScrolling /\ (ClickStep \/ WheelStep)) =>
            /\ currentSlideIndex' = currentSlideIndex
            /\ isScrolling' = isScrolling
            /\ ariaPressed' = ariaPressed
            /\ NoAnimationStarted
            /\ ~ev'.accepted
            /\ ClickStep => UNCHANGED prog ]_vars

C2_Witness ==
    /\ ev.kind = "click" /\ ev.nav # <<>> /\ ev.nav[1] \in ValidIndices
    /\ ev.nav[1] # currentSlideIndex
    /\ ~ev.accepted /\ isScrolling

(* C3: navigateToSlide(i) with i in [0, slideCount) and the lock free sets *)
(* currentSlideIndex to i and the lock to true and, with one indicator per *)
(* slide, leaves exactly indicator i pressed.                              *)
C3_AcceptedNavigation ==
    [][ \A i \in ValidIndices :
            (NavStep(i) /\ ~isScrolling) =>
                /\ currentSlideIndex' = i
                /\ isScrolling' = TRUE
                /\ indicators = ValidIndices => Pressed(ariaPressed') = {i} ]_vars

C3_Witness ==
    /\ ev.accepted /\ ev.nav # <<>> /\ ev.nav[1] > 0
    /\ indicators = ValidIndices
    /\ currentSlideIndex = ev.nav[1] /\ isScrolling
    /\ Pressed(ariaPressed) = {ev.nav[1]}

(* C4: navigateToSlide(i) with i < 0 or i >= slideCount changes nothing,   *)
(* whether the lock is held or free.                                       *)
C4_OutOfRangeNoOp ==
    [][ (scroller /\ ev'.nav # <<>> /\ NavStep(ev'.nav[1]) /\ ev'.nav[1] \notin ValidIndices) =>
            UNCHANGED prog /\ ~ev'.accepted ]_vars

C4_Witness ==
    /\ ev.kind = "click" /\ ev.nav # <<>> /\ ev.nav[1] >= slideCount
    /\ slideCount > 0 /\ isScrolling

(* C5: at most one scroll animation is active: pending completion timers   *)
(* and live frame chains together number at most one.                      *)
C5_SingleAnimation == ActiveAnimations <= 1

C5_Witness ==
    /\ ActiveAnimations = 1
    /\ ev.kind = "click" /\ ev.nav # <<>> /\ ev.nav[1] \in ValidIndices
    /\ ~ev.accepted

(* C6: when the timer fires, or a frame step of an uninterrupted animation *)
(* sees more than SCROLL_DURATION elapsed, the lock is false afterwards    *)
(* and a navigateToSlide call with a valid index that follows is accepted. *)
C6_CompletionReleasesLock ==
    [][ /\ ev'.done => ~isScrolling'
        /\ \A i \in ValidIndices :
              (ev.done /\ NavStep(i)) =>
                  isScrolling' /\ currentSlideIndex' = i /\ ActiveAnimations' = 1 ]_vars

C6_Witness ==
    /\ ev.kind = "frame" /\ ev.done
    /\ ~isScrolling
    /\ currentSlideIndex > 0 /\ scrollTop = targetScrollTop(currentSlideIndex)

(* C7, as claimed: a wheel event with a scrollable ancestor that has room  *)
(* in its direction never changes currentSlideIndex and never has its      *)
(* default suppressed.  Fails while the lock is held.                      *)
C7_AsClaimed ==
    [][ (WheelStep /\ HasRoomAncestor(wheelEvent)) =>
            currentSlideIndex' = currentSlideIndex /\ ~ev'.prevented ]_vars

(* C7, amended: the same for a wheel event that arrives while the lock is  *)
(* free.                                                                   *)
C7_DelegationWhenFree ==
    [][ (WheelStep /\ ~isScrolling /\ HasRoomAncestor(wheelEvent)) =>
            /\ currentSlideIndex' = currentSlideIndex
            /\ ~ev'.prevented
            /\ UNCHANGED prog ]_vars

C7_Witness ==
    /\ ev.kind = "wheel" /\ ev.delegated /\ ~ev.prevented
    /\ ~isScrolling /\ slideCount > 1

(* Where the claim sends the index: one further in the direction of the    *)
(* delta, clamped at the first and at the last slide.                      *)
ClaimedNext(idx, deltaY) ==
    IF deltaY > 0
    THEN (IF idx >= slideCount - 1 THEN idx ELSE idx + 1)
    ELSE (IF idx <= 0 THEN idx ELSE idx - 1)

(* C8, as claimed: a wheel event with a vertical delta and no scrollable   *)
(* ancestor with room has its default suppressed and moves the index by    *)
(* one, clamped at the two ends.  Fails while the lock is held.            *)
C8_AsClaimed ==
    [][ (WheelStep /\ wheelEvent.deltaY # 0 /\ ~HasRoomAncestor(wheelEvent)) =>
            /\ ev'.prevented
            /\ currentSlideIndex' = ClaimedNext(currentSlideIndex, wheelEvent.deltaY) ]_vars

(* C8, amended: the same for a wheel event that arrives while the lock is  *)
(* free.                                                                   *)
C8_NavigationWhenFree ==
    [][ (WheelStep /\ ~isScrolling /\ wheelEvent.deltaY # 0
            /\ ~HasRoomAncestor(wheelEvent)) =>
            /\ ev'.prevented
            /\ currentSlideIndex' = ClaimedNext(currentSlideIndex, wheelEvent.deltaY) ]_vars

C8_Witness ==
    /\ ev.kind = "wheel" /\ ev.prevented /\ ev.accepted
    /\ ev.nav = <<currentSlideIndex>>
    /\ currentSlideIndex = 1 /\ scrollTop > 0

(* C9: a wheel event handled while the lock is held has its default        *)
(* suppressed and is neither delegated nor turned into a navigation,       *)
(* whatever its target and whatever room the nested elements have.         *)
C9_LockedWheelSuppressed ==
    [][ (WheelStep /\ isScrolling) =>
            /\ ev'.prevented
            /\ ~ev'.delegated
            /\ ev'.nav = <<>>
            /\ currentSlideIndex' = currentSlideIndex
            /\ isScrolling'
            /\ NoAnimationStarted ]_vars

C9_Witness ==
    /\ ev.kind = "wheel" /\ ev.prevented /\ ev.nav = <<>>
    /\ isScrolling /\ hasNativeSmoothScroll

(* C10, as claimed: currentSlideIndex lies in [0, slideCount-1] for every  *)
(* slide count.  Fails for a scroller with no element children.            *)
C10_AsClaimed == scroller => currentSlideIndex \in ValidIndices

(* C10, amended: currentSlideIndex lies in [0, slideCount-1] whenever      *)
(* there is at least one slide and is 0 when there is none; it starts at 0 *)
(* and changes only in an accepted navigation, to the index asked for.     *)
C10_IndexInRange ==
    /\ currentSlideIndex = 0
    /\ [](scroller =>
            IF slideCount >= 1 THEN currentSlideIndex \in ValidIndices
                               ELSE currentSlideIndex = 0)
    /\ [][ currentSlideIndex' # currentSlideIndex =>
               ev'.accepted /\ ev'.nav = <<currentSlideIndex'>> ]_vars

C10_Witness ==
    /\ slideCount = MaxSlides /\ currentSlideIndex = slideCount - 1
    /\ ev.kind = "wheel" /\ ev.nav = <<slideCount>> /\ ~ev.accepted /\ ~isScrolling

(* C11: once initialised, indicator j is marked pressed if and only if j   *)
(* equals currentSlideIndex, in the initial state and after every step,    *)
(* rejected requests included.                                             *)
C11_PressedMirrorsIndex ==
    scroller => \A j \in indicators : (ariaPressed[j] = "true") <=> (j = currentSlideIndex)

C11_Witness ==
    /\ scroller /\ Cardinality(indicators) >= 2
    /\ ev.kind = "click" /\ ~ev.accepted /\ ev.nav # <<currentSlideIndex>>
    /\ currentSlideIndex > 0
    /\ Pressed(ariaPressed) = {currentSlideIndex}

(* The step ran the cancel listeners of the closures that were listening *)
CancelStep == ev'.kind \in {"wheel", "touchstart"}

(* The step ran the frame callback of an interrupted closure *)
StaleFrameStep == ev'.kind = "frame" /\ LiveChains = {}

(* C12: a wheel or touchstart event that reaches the container while a     *)
(* manual animation is in flight interrupts it and detaches both of its    *)
(* cancel listeners; the frame step already scheduled then returns without *)
(* writing scrollTop and without scheduling another frame; and at all      *)
(* times cancel listeners are attached only for an animation that is still *)
(* running, so completion detaches them too.                               *)
C12_CancelStopsAnimation ==
    /\ [](\A k \in DOMAIN anims :
             anims[k].listening => anims[k].raf /\ ~anims[k].interrupt)
    /\ [][CancelStep =>
             /\ Len(anims') >= Len(anims)
             /\ \A k \in DOMAIN anims : anims'[k].interrupt /\ ~anims'[k].listening]_vars
    /\ [][StaleFrameStep =>
             /\ scrollTop' = scrollTop
             /\ Len(anims') < Len(anims)
             /\ LiveChains' = {}]_vars

C12_Witness ==
    /\ ev.kind = "frame" /\ ~ev.done
    /\ isScrolling /\ anims = <<>> /\ ~hasNativeSmoothScroll
    /\ scrollTop # targetScrollTop(currentSlideIndex)

(* C13: when the container is missing at DOMContentLoaded the handler      *)
(* returns early: no listener is registered, so no event is ever           *)
(* default-prevented or turned into a navigation request; no indicator     *)
(* gets a label or a pressed attribute; and the controller state stays as  *)
(* it was, whatever events follow.                                         *)
C13_MissingContainerInert ==
    ~scroller =>
        /\ \A i \in indicators : ariaLabel[i] = 0 /\ ariaPressed[i] = "null"
        /\ ~ev.prevented /\ ev.nav = <<>> /\ ~ev.accepted /\ ~ev.done
        /\ currentSlideIndex = 0 /\ ~isScrolling
        /\ scrollTop = 0 /\ scrollToTarget = <<>>
        /\ timers = <<>> /\ anims = <<>>

C13_Witness ==
    /\ ~scroller /\ indicators # {}
    /\ ev.kind = "click"
    /\ Pressed(ariaPressed) = {} /\ ~isScrolling

(* The quotient scrollHeight * i / slideCount, rounded down *)
FloorTarget(i) == (scrollHeight * i) \div slideCount

(* The offset the animation started by the step is heading for *)
StartedTarget ==
    IF hasNativeSmoothScroll THEN scrollToTarget'[1] ELSE anims'[Len(anims')].target

AcceptedStep == ev'.kind \in {"click", "wheel"} /\ ev'.accepted

CompletingFrame == ev'.kind = "frame" /\ ev'.done

(* C14: an accepted navigateToSlide(i) targets the offset                  *)
(* floor(scrollHeight * i / slideCount); the first frame step of an        *)
(* uninterrupted manual animation that finds the duration exceeded sets    *)
(* scrollTop to exactly that offset, runs the completion callback once,    *)
(* releasing the lock it held, and leaves no frame scheduled.              *)
C14_ExactTarget ==
    /\ [][AcceptedStep => StartedTarget = FloorTarget(ev'.nav[1])]_vars
    /\ [][CompletingFrame =>
             /\ scrollTop' = FloorTarget(currentSlideIndex)
             /\ isScrolling /\ ~isScrolling'
             /\ Len(anims') < Len(anims) /\ LiveChains' = {}]_vars

(* What holds of the target: it is the offset the code computes in doubles *)
ComputedTarget ==
    /\ [][AcceptedStep => StartedTarget = targetScrollTop(ev'.nav[1])]_vars
    /\ [][CompletingFrame =>
             /\ scrollTop' = targetScrollTop(currentSlideIndex)
             /\ isScrolling /\ ~isScrolling'
             /\ Len(anims') < Len(anims) /\ LiveChains' = {}]_vars

(* The animation came to rest one pixel short of the slide's boundary *)
ShortOfBoundary ==
    /\ ActiveAnimations = 0 /\ ~isScrolling /\ scrollToTarget = <<>>
    /\ scrollTop # FloorTarget(currentSlideIndex)

(* No element from the target up to below the scroller can scroll up *)
NoRoomUp(e) ==
    \A k \in DOMAIN e.chain :
        ~(e.chain[k].overflowY \in {"auto", "scroll"} /\ RoomUp(e.chain[k]))

(* C15: a wheel event with deltaY = 0 counts as a request to go up: with   *)
(* the lock free and no nested scrollable element having room to scroll    *)
(* up, its default is prevented and navigateToSlide(currentSlideIndex - 1) *)
(* is called, so the index goes down by one if it was above 0 and stays    *)
(* otherwise.                                                              *)
C15_ZeroDeltaGoesUp ==
    [][(WheelStep /\ wheelEvent.deltaY = 0 /\ ~isScrolling /\ NoRoomUp(wheelEvent)) =>
          /\ ev'.prevented
          /\ ev'.nav = <<currentSlideIndex - 1>>
          /\ currentSlideIndex' =
                 IF currentSlideIndex > 0 THEN currentSlideIndex - 1 ELSE 0]_vars

C15_Witness ==
    /\ ev.kind = "wheel" /\ ev.deltaY = 0
    /\ ev.prevented /\ ev.accepted
    /\ ev.nav = <<currentSlideIndex>> /\ currentSlideIndex > 0
    /\ isScrolling

(* C16: scroll updates are throttled to one per frame: whatever the order  *)
(* of scroll events, the 300 ms timer and frame callbacks, at most one     *)
(* updatePath frame callback is pending, and rafId is non-null exactly     *)
(* when one is pending.                                                    *)
C16_OneFramePending ==
    /\ Cardinality(frames) <= 1
    /\ rafId # <<>> <=> frames # {}

(* Two frame callbacks of updatePath are pending at once *)
TwoFramesPending == Cardinality(frames) >= 2

(* Fade-out timers pending for element el *)
PendingFor(el) == {x \in timeouts : x.el = el}

(* The pointer, where the last mousemove put it, is within the element's   *)
(* box widened by the padding on every side.                               *)
InZone(el) ==
    /\ mouse # <<>>
    /\ LET e == mouse[1]
           r == mouse[1].rect[el]
       IN  /\ e.clientX \in (r.left - HoverPadding) .. (r.right + HoverPadding)
           /\ e.clientY \in (r.top - HoverPadding) .. (r.bottom + HoverPadding)

(* The step is the expiry of a fade-out timer of element el *)
FadeStep(el) == opacity'[el] = "0" /\ PendingFor(el) \ timeouts' # {}

(* C17: for each element at most one fade-out timer is pending, and none   *)
(* while isHovering is true; so no step sets the element's opacity to 0    *)
(* while the pointer is inside its padded hover zone.                      *)
C17_NoFadeWhileInside ==
    /\ [](\A el \in elements :
             /\ Cardinality(PendingFor(el)) <= 1
             /\ isHovering[el] => PendingFor(el) = {})
    /\ [][\A el \in elements : FadeStep(el) => ~InZone(el)]_vars

C17_Witness ==
    /\ elements = {1}
    /\ opacity[1] = "0" /\ ~isHovering[1] /\ ~InZone(1)
    /\ fadeTimeout[1] = <<2>> /\ timeouts = {}

=============================================================================
